---- MODULE Spec2Model ----
(***************************************************************************)
(* Model of uploadVersionJSON (src/src/upload-version-json.ts): the        *)
(* reconciliation of the updater manifest latest.json with the assets of   *)
(* one release.                                                            *)
(*                                                                         *)
(* File names and paths are sequences of one-character strings, so that    *)
(* trim, replace, endsWith, extname and basename are computed character by *)
(* character.  A download URL is a record [dir, file]: dir is the sequence *)
(* of "/"-separated segments before the file name (host first), file is    *)
(* the asset name.  A JavaScript object with string keys is a sequence of  *)
(* <<key, value>> members in insertion order.                              *)
(***************************************************************************)
EXTENDS Naturals, Sequences, FiniteSets, TLC

VARIABLES
    token,           \* process.env.GITHUB_TOKEN is defined
    artifacts,       \* parameter artifacts: sequence of [path, arch]
    platform,        \* parameter targetInfo.platform
    preferNsis,      \* parameter updaterJsonPreferNsis
    keepUniversal,   \* parameter updaterJsonKeepUniversal
    tagName,         \* parameter tagName: sequence of segments, <<>> when empty
    urlDir,          \* the segments the host puts before an asset's name in its download URL
    release,         \* the release's assets on the host: sequence of [id, name, url, body]
    nextId,          \* the id the host gives the next uploaded asset
    clock,           \* what new Date() reads
    disk,            \* latest.json in the working directory: a document, or NoFile
    pc,              \* position of the run in uploadVersionJSON
    assetsData,      \* assets.data
    asset,           \* the listed asset named latest.json, or NoAsset
    versionContent,  \* versionContent
    filteredAssets,  \* filteredAssets
    signatureFiles,  \* signatureFiles (sorted once pc has passed the selection)
    downloadUrl,     \* downloadUrl (rewritten), or NoUrl
    log,             \* the I/O calls the run has issued, in order
    failure,         \* what made the run throw, "none" while it has not
    phase,           \* "first" run or "second" run with the same inputs
    first            \* [outcome, release]: how the first run ended ("none" during
                     \* it) and the release as the current run found it

inputs == <<token, artifacts, platform, preferNsis, keepUniversal, tagName>>
world  == <<urlDir, release, nextId, clock, disk>>
locals == <<pc, assetsData, asset, versionContent, filteredAssets, signatureFiles,
            downloadUrl, log, failure>>
vars   == <<inputs, world, locals, phase, first>>

(***************************************************************************)
(* Strings                                                                 *)
(***************************************************************************)

\* String.prototype.endsWith
EndsWith(s, suffix) ==
    /\ Len(suffix) <= Len(s)
    /\ SubSeq(s, Len(s) - Len(suffix) + 1, Len(s)) = suffix

\* the last index of character c in s, 0 when there is none
LastIndexOf(s, c) ==
    LET I == {i \in 1..Len(s) : s[i] = c}
    IN  IF I = {} THEN 0 ELSE CHOOSE i \in I : \A j \in I : j <= i

\* node:path basename(p) of a path without trailing separator
Basename(p) == SubSeq(p, LastIndexOf(p, "/") + 1, Len(p))

\* node:path extname(p): from the last "." of the base name to its end; empty
\* when there is no "." or the only "." starts the base name, and for ".."
ExtName(p) ==
    LET b == Basename(p)
        i == LastIndexOf(b, ".")
    IN  IF i <= 1 \/ b = <<".", ".">> THEN <<>> ELSE SubSeq(b, i, Len(b))

\* node:path basename(p, ext)
BasenameExt(p, ext) ==
    LET b == Basename(p)
    IN  IF ext = <<>> \/ ~EndsWith(b, ext) THEN b
        ELSE IF b = ext THEN <<>>
        ELSE SubSeq(b, 1, Len(b) - Len(ext))

\* getAssetName of ./utils: the file's base name
GetAssetName(path) == Basename(path)

WhiteSpace == {" "}

RECURSIVE TrimStart(_)
TrimStart(s) ==
    IF s # <<>> /\ Head(s) \in WhiteSpace THEN TrimStart(Tail(s)) ELSE s

RECURSIVE TrimEnd(_)
TrimEnd(s) ==
    IF s # <<>> /\ s[Len(s)] \in WhiteSpace
    THEN TrimEnd(SubSeq(s, 1, Len(s) - 1)) ELSE s

\* String.prototype.trim
Trim(s) == TrimEnd(TrimStart(s))

\* .replace(/[ ()[\]{}]/g, '.')
ReplaceBrackets(s) ==
    [i \in 1..Len(s) |->
        IF s[i] \in {" ", "(", ")", "[", "]", "{", "}"} THEN "." ELSE s[i]]

\* .replace(/\.\./g, '.'): one left-to-right pass over non-overlapping pairs
RECURSIVE CollapseDots(_)
CollapseDots(s) ==
    IF Len(s) < 2 THEN s
    ELSE IF s[1] = "." /\ s[2] = "."
         THEN <<".">> \o CollapseDots(SubSeq(s, 3, Len(s)))
         ELSE <<s[1]>> \o CollapseDots(Tail(s))

\* .normalize('NFD').replace(/[\u0300-\u036f]/g, ''): a precomposed letter is
\* decomposed into its base letter and a combining mark, and the mark dropped
StripAccent(c) ==
    CASE c = "é" -> "e"
      [] c = "ü" -> "u"
      [] OTHER -> c

StripAccents(s) == [i \in 1..Len(s) |-> StripAccent(s[i])]

\* the asset name an artifact is looked up under (lines 101-107)
AssetName(path) ==
    StripAccents(CollapseDots(ReplaceBrackets(Trim(GetAssetName(path)))))

(***************************************************************************)
(* Matching and signature selection (lines 93-153)                         *)
(***************************************************************************)

NoUrl == [dir |-> <<>>, file |-> <<>>]

\* downloadUrls.get(name) after the loop of lines 93-96: a later asset of the
\* same name replaces an earlier one; NoUrl (undefined) when there is none
DownloadUrlOf(data, name) ==
    LET I == {i \in 1..Len(data) : data[i].name = name}
    IN  IF I = {} THEN NoUrl
        ELSE data[CHOOSE i \in I : \A j \in I : j <= i].url

\* the loop of lines 100-122 over the artifacts, in their order
RECURSIVE FilterAssets(_, _)
FilterAssets(arts, data) ==
    IF arts = <<>> THEN <<>>
    ELSE LET artifact == Head(arts)
             assetName == AssetName(artifact.path)
             url == DownloadUrlOf(data, assetName)
         IN  (IF url # NoUrl
              THEN <<[downloadUrl |-> url, assetName |-> assetName,
                      path |-> artifact.path, arch |-> artifact.arch]>>
              ELSE <<>>) \o FilterAssets(Tail(arts), data)

SIG == <<".", "s", "i", "g">>
MSI == <<".", "m", "s", "i">>
EXE == <<".", "e", "x", "e">>
ZIP == <<".", "z", "i", "p">>
NSIS == <<".", "n", "s", "i", "s">>

\* signatureFiles of line 124, before the sort
SignatureCandidates(filtered) ==
    LET IsSig(a) == EndsWith(a.assetName, SIG) IN SelectSeq(filtered, IsSig)

\* priorities of lines 134-136
Priorities(nsis) ==
    IF nsis
    THEN <<NSIS \o ZIP \o SIG, EXE \o SIG, MSI \o ZIP \o SIG, MSI \o SIG>>
    ELSE <<MSI \o ZIP \o SIG, MSI \o SIG, NSIS \o ZIP \o SIG, EXE \o SIG>>

\* signaturePriority (lines 133-143): 100 - index of the first extension the
\* path ends with (index from 0), 0 when it ends with none
SignaturePriority(signaturePath, nsis) ==
    LET priorities == Priorities(nsis)
        I == {i \in 1..Len(priorities) : EndsWith(signaturePath, priorities[i])}
    IN  IF I = {} THEN 0
        ELSE 100 - ((CHOOSE i \in I : \A j \in I : i <= j) - 1)

\* the comparator of line 145: negative when a sorts before b
Precedes(a, b, nsis) ==
    SignaturePriority(b.path, nsis) < SignaturePriority(a.path, nsis)

\* an insertion that puts x before the elements it ties with
RECURSIVE InsertSortedUnstable(_, _, _)
InsertSortedUnstable(x, sorted, nsis) ==
    IF sorted = <<>> THEN <<x>>
    ELSE IF ~Precedes(Head(sorted), x, nsis) THEN <<x>> \o sorted
    ELSE <<Head(sorted)>> \o InsertSortedUnstable(x, Tail(sorted), nsis)

\* x put into an already sorted sequence behind every element it does not
\* strictly precede
RECURSIVE InsertSorted(_, _, _)
InsertSorted(x, sorted, nsis) ==
    IF sorted = <<>> THEN <<x>>
    ELSE IF Precedes(x, Head(sorted), nsis) THEN <<x>> \o sorted
    ELSE <<Head(sorted)>> \o InsertSorted(x, Tail(sorted), nsis)

\* Array.prototype.sort of lines 144-146: a stable sort
RECURSIVE SortSignatures(_, _)
SortSignatures(files, nsis) ==
    IF files = <<>> THEN <<>>
    ELSE InsertSorted(files[Len(files)],
                      SortSignatures(SubSeq(files, 1, Len(files) - 1), nsis), nsis)

(***************************************************************************)
(* Companion lookup and URL rewriting (lines 155-170)                      *)
(***************************************************************************)

\* updaterName of lines 155-158
UpdaterName(signatureFile) ==
    BasenameExt(signatureFile.assetName, ExtName(signatureFile.assetName))

\* the companion looked up among all listed assets of the release
CompanionUrlListed(filtered, updaterName) == DownloadUrlOf(assetsData, updaterName)

\* filteredAssets.find(...)?.downloadUrl of lines 159-161
CompanionUrl(filtered, updaterName) ==
    LET I == {i \in 1..Len(filtered) : filtered[i].assetName = updaterName}
    IN  IF I = {} THEN NoUrl
        ELSE filtered[CHOOSE i \in I : \A j \in I : i <= j].downloadUrl

\* a segment the pattern untagged-[^/]+ matches whole
UntaggedSegments == {"untagged-abc123", "untagged-t", "untagged-x"}

\* the pattern /\/download\/(untagged-[^/]+)\// matches at segment i
MatchesAt(dir, i) ==
    /\ i + 1 <= Len(dir)
    /\ dir[i] = "download"
    /\ dir[i + 1] \in UntaggedSegments

FirstMatch(dir) ==
    LET I == {i \in 1..Len(dir) : MatchesAt(dir, i)}
    IN  IF I = {} THEN 0 ELSE CHOOSE i \in I : \A j \in I : i <= j

\* a replacement string's segments with the pattern $1 expanded to the
\* first capture group, as String.prototype.replace does
ExpandReplacement(segments, group) ==
    [i \in 1..Len(segments) |-> IF segments[i] = "$1" THEN group ELSE segments[i]]

\* the replacement of line 169
Replacement(tag) ==
    IF tag # <<>> THEN <<"download">> \o tag ELSE <<"latest", "download">>

\* downloadUrl.replace(...) of lines 167-170: the first match only
RewriteUrl(url, tag) ==
    LET i == FirstMatch(url.dir)
    IN  IF i = 0 THEN url
        ELSE [url EXCEPT !.dir =
                 SubSeq(url.dir, 1, i - 1)
                 \o ExpandReplacement(Replacement(tag), url.dir[i + 1])
                 \o SubSeq(url.dir, i + 2, Len(url.dir))]

(***************************************************************************)
(* Platform key and merge (lines 172-210)                                  *)
(***************************************************************************)

\* lines 172-175
ResolveOs(p) == IF p = "macos" THEN "darwin" ELSE p

\* lines 177-187 without the arm64 alias
ResolveArchNoArm64(arch) ==
    IF arch = "amd64" \/ arch = "x86_64" \/ arch = "x64" THEN "x86_64"
    ELSE IF arch = "x86" \/ arch = "i386" THEN "i686"
    ELSE IF arch = "arm" THEN "armv7"
    ELSE arch

\* lines 177-187
ResolveArch(arch) ==
    IF arch = "amd64" \/ arch = "x86_64" \/ arch = "x64" THEN "x86_64"
    ELSE IF arch = "x86" \/ arch = "i386" THEN "i686"
    ELSE IF arch = "arm" THEN "armv7"
    ELSE IF arch = "arm64" THEN "aarch64"
    ELSE arch

\* `${os}-${arch}`
PlatformKey(os, arch) == os \o "-" \o arch

\* obj[key] is set (every value stored is an object, hence truthy)
HasKey(obj, key) == \E i \in 1..Len(obj) : obj[i][1] = key

\* obj[key]
GetKey(obj, key) == obj[CHOOSE i \in 1..Len(obj) : obj[i][1] = key][2]

\* a member pushed whether or not the key exists
SetKeyAppend(obj, key, value) == Append(obj, <<key, value>>)

\* obj[key] = value: in place when the key exists, appended otherwise
SetKey(obj, key, value) ==
    IF HasKey(obj, key)
    THEN [i \in 1..Len(obj) |-> IF obj[i][1] = key THEN <<key, value>> ELSE obj[i]]
    ELSE Append(obj, <<key, value>>)

\* readFileSync(path).toString(): the contents of the signature file
ReadSignature(path) == <<"s", "i", "g", ":">> \o path

\* lines 192-203 without the guards that protect native builds
SetAlways(platforms, key, entry) ==
    IF HasKey(platforms, key)
    THEN [i \in 1..Len(platforms) |->
            IF platforms[i][1] = key THEN <<key, entry>> ELSE platforms[i]]
    ELSE Append(platforms, <<key, entry>>)

\* lines 192-197 and 198-203: written only when the key is not there yet
SetIfAbsent(platforms, key, entry) ==
    IF ~HasKey(platforms, key) THEN SetKey(platforms, key, entry) ELSE platforms

\* lines 190-204
UniversalWrites(platforms, os, arch, entry) ==
    IF os = "darwin" /\ arch = "universal"
    THEN SetIfAbsent(SetIfAbsent(platforms, "darwin-aarch64", entry),
                     "darwin-x86_64", entry)
    ELSE platforms

\* the condition of line 205
WritesOwnKey(keep, os, arch) == keep \/ os # "darwin" \/ arch # "universal"

\* lines 205-210 writing the run's own key only when it is not there yet
DirectWriteIfAbsent(platforms, keep, os, arch, entry) ==
    IF WritesOwnKey(keep, os, arch) /\ ~HasKey(platforms, PlatformKey(os, arch))
    THEN Append(platforms, <<PlatformKey(os, arch), entry>>)
    ELSE platforms

\* lines 205-210
DirectWrite(platforms, keep, os, arch, entry) ==
    IF WritesOwnKey(keep, os, arch)
    THEN SetKey(platforms, PlatformKey(os, arch), entry)
    ELSE platforms

\* lines 172-210: the platforms object after the writes of the run
MergePlatforms(platforms, targetPlatform, signatureFile, url, keep) ==
    LET os == ResolveOs(targetPlatform)
        arch == ResolveArch(signatureFile.arch)
        entry == [signature |-> ReadSignature(signatureFile.path), url |-> url]
    IN  DirectWrite(UniversalWrites(platforms, os, arch, entry), keep, os, arch, entry)

(***************************************************************************)
(* The manifest as a document (lines 87-90 and 212)                        *)
(***************************************************************************)

\* JSON.stringify(versionContent, null, 2): the members in declaration order
Stringify(vc) ==
    [kind |-> "json",
     members |-> << <<"version", vc.version>>, <<"notes", vc.notes>>,
                    <<"pub_date", vc.pub_date>>, <<"platforms", vc.platforms>> >>]

\* a parse that swallows its error and yields an empty object
ParsesAnything(doc) == TRUE

\* JSON.parse throws on a document that is not JSON
Parses(doc) == doc.kind = "json"

\* JSON.parse(...).platforms is not undefined
HasMember(doc, name) == \E i \in 1..Len(doc.members) : doc.members[i][1] = name

\* JSON.parse(...).platforms
Member(doc, name) ==
    doc.members[CHOOSE i \in 1..Len(doc.members) : doc.members[i][1] = name][2]

(***************************************************************************)
(* The run                                                                 *)
(***************************************************************************)

\* versionFilename of line 54
VersionFilename == <<"l", "a", "t", "e", "s", "t", ".", "j", "s", "o", "n">>

\* the parameters version and notes
Version == "1.0.0"
Notes == "new notes"

NoDoc == [kind |-> "none", members |-> <<>>]
Binary == [kind |-> "bin", members |-> <<>>]
NoAsset == [id |-> 0, name |-> <<>>, url |-> NoUrl, body |-> NoDoc]

Terminal == {"done", "skipped", "error"}

\* assets.data.find((e) => e.name === versionFilename) of line 69
FindVersionAsset(data) ==
    LET I == {i \in 1..Len(data) : data[i].name = VersionFilename}
    IN  IF I = {} THEN NoAsset ELSE data[CHOOSE i \in I : \A j \in I : i <= j]

\* the host's answer to GET /repos/{owner}/{repo}/releases/assets/{asset_id}
AssetBody(id) ==
    release[CHOOSE i \in 1..Len(release) : release[i].id = id].body

\* the host's release after deleteReleaseAsset of the asset with this id
WithoutAsset(assets, id) == LET Keep(a) == a.id # id IN SelectSeq(assets, Keep)

\* uploadAssets of ./upload-release-assets: the file becomes a new asset of
\* the release, named after the file
WithUploaded(assets, id, name, body) ==
    Append(assets, [id |-> id, name |-> name,
                    url |-> [dir |-> urlDir, file |-> name], body |-> body])

\* lines 147-153 throwing instead of returning
ThrowWithoutSignature(files) == IF files = <<>> THEN "error" ELSE "companion"

\* lines 147-153: no signature ends the run
AfterSelection(files) == IF files = <<>> THEN "skipped" ELSE "companion"

\* line 214 without the deletion
NeverDelete(found) == "upload"

\* line 214: an existing manifest asset is deleted before the upload
AfterWrite(found) == IF found # NoAsset THEN "delete" ELSE "upload"

Throw(what) == pc' = "error" /\ failure' = what

\* lines 48-61
Start ==
    /\ pc = "start"
    /\ IF ~token
       THEN Throw("token") /\ UNCHANGED versionContent
       ELSE /\ pc' = "list"
            /\ versionContent' = [version |-> Version, notes |-> Notes,
                                  pub_date |-> clock, platforms |-> <<>>,
                                  platformsDefined |-> TRUE]
            /\ UNCHANGED failure
    /\ UNCHANGED <<inputs, world, assetsData, asset, filteredAssets,
                   signatureFiles, downloadUrl, log, phase, first>>

\* lines 63-69: the listing answers, or the call throws
ListReleaseAssets ==
    /\ pc = "list"
    /\ log' = Append(log, "listReleaseAssets")
    /\ \/ /\ assetsData' = release
          /\ asset' = FindVersionAsset(release)
          /\ pc' = IF FindVersionAsset(release) # NoAsset THEN "fetch" ELSE "select"
          /\ UNCHANGED failure
       \/ /\ Throw("list")
          /\ UNCHANGED <<assetsData, asset>>
    /\ UNCHANGED <<inputs, world, versionContent, filteredAssets, signatureFiles,
                   downloadUrl, phase, first>>

\* lines 71-91: the request throws, JSON.parse throws, or platforms is taken
\* from the fetched document (undefined when it has no such member)
FetchManifest ==
    /\ pc = "fetch"
    /\ log' = Append(log, "getReleaseAsset")
    /\ \/ /\ Throw("fetch")
          /\ UNCHANGED versionContent
       \/ LET doc == AssetBody(asset.id)
          IN  IF ~Parses(doc)
              THEN Throw("parse") /\ UNCHANGED versionContent
              ELSE /\ versionContent' =
                        [versionContent EXCEPT
                           !.platformsDefined = HasMember(doc, "platforms"),
                           !.platforms = IF HasMember(doc, "platforms")
                                         THEN Member(doc, "platforms") ELSE <<>>]
                   /\ pc' = "select"
                   /\ UNCHANGED failure
    /\ UNCHANGED <<inputs, world, assetsData, asset, filteredAssets,
                   signatureFiles, downloadUrl, phase, first>>

\* lines 93-153
SelectSignature ==
    /\ pc = "select"
    /\ filteredAssets' = FilterAssets(artifacts, assetsData)
    /\ signatureFiles' = SortSignatures(SignatureCandidates(filteredAssets'), preferNsis)
    /\ pc' = AfterSelection(signatureFiles')
    /\ UNCHANGED <<inputs, world, assetsData, asset, versionContent, downloadUrl,
                   log, failure, phase, first>>

\* lines 155-170
FindCompanion ==
    /\ pc = "companion"
    /\ LET url == CompanionUrl(filteredAssets, UpdaterName(signatureFiles[1]))
       IN  IF url = NoUrl
           THEN pc' = "skipped" /\ UNCHANGED downloadUrl
           ELSE pc' = "merge" /\ downloadUrl' = RewriteUrl(url, tagName)
    /\ UNCHANGED <<inputs, world, assetsData, asset, versionContent, filteredAssets,
                   signatureFiles, log, failure, phase, first>>

\* lines 172-210: a property of undefined cannot be read or set
Merge ==
    /\ pc = "merge"
    /\ IF ~versionContent.platformsDefined
       THEN Throw("type") /\ UNCHANGED versionContent
       ELSE /\ versionContent' =
                 [versionContent EXCEPT !.platforms =
                    MergePlatforms(versionContent.platforms, platform,
                                   signatureFiles[1], downloadUrl, keepUniversal)]
            /\ pc' = "write"
            /\ UNCHANGED failure
    /\ UNCHANGED <<inputs, world, assetsData, asset, filteredAssets, signatureFiles,
                   downloadUrl, log, phase, first>>

\* line 212
WriteFile ==
    /\ pc = "write"
    /\ disk' = Stringify(versionContent)
    /\ log' = Append(log, "writeFile")
    /\ pc' = AfterWrite(asset)
    /\ UNCHANGED <<inputs, urlDir, release, nextId, clock, assetsData, asset,
                   versionContent, filteredAssets, signatureFiles, downloadUrl,
                   failure, phase, first>>

\* lines 214-222: the asset is deleted, or the call throws
DeleteAsset ==
    /\ pc = "delete"
    /\ log' = Append(log, "deleteReleaseAsset")
    /\ \/ /\ release' = WithoutAsset(release, asset.id)
          /\ pc' = "upload"
          /\ UNCHANGED failure
       \/ /\ Throw("delete")
          /\ UNCHANGED release
    /\ UNCHANGED <<inputs, urlDir, nextId, clock, disk, assetsData, asset,
                   versionContent, filteredAssets, signatureFiles, downloadUrl,
                   phase, first>>

\* line 224: the file is uploaded, or the call throws
UploadAssets ==
    /\ pc = "upload"
    /\ log' = Append(log, "uploadAssets")
    /\ \/ /\ release' = WithUploaded(release, nextId, VersionFilename, disk)
          /\ nextId' = nextId + 1
          /\ pc' = "done"
          /\ UNCHANGED failure
       \/ /\ Throw("upload")
          /\ UNCHANGED <<release, nextId>>
    /\ UNCHANGED <<inputs, urlDir, clock, disk, assetsData, asset, versionContent,
                   filteredAssets, signatureFiles, downloadUrl, phase, first>>

\* the caller (a CI re-run) calls uploadVersionJSON once more with the same
\* arguments, later
Rerun ==
    /\ phase = "first"
    /\ pc \in Terminal
    /\ phase' = "second"
    /\ first' = [outcome |-> pc, release |-> release]
    /\ clock' = clock + 1
    /\ pc' = "start"
    /\ assetsData' = <<>>
    /\ asset' = NoAsset
    /\ versionContent' = [version |-> "", notes |-> "", pub_date |-> 0,
                          platforms |-> <<>>, platformsDefined |-> TRUE]
    /\ filteredAssets' = <<>>
    /\ signatureFiles' = <<>>
    /\ downloadUrl' = NoUrl
    /\ log' = <<>>
    /\ failure' = "none"
    /\ UNCHANGED <<inputs, urlDir, release, nextId, disk>>

\* one call of uploadVersionJSON
Run ==
    \/ Start
    \/ ListReleaseAssets
    \/ FetchManifest
    \/ SelectSignature
    \/ FindCompanion
    \/ Merge
    \/ WriteFile
    \/ DeleteAsset
    \/ UploadAssets

Next == Run \/ Rerun

(***************************************************************************)
(* Inputs and initial states                                               *)
(***************************************************************************)

\* the longest artifact list of the selection runs
MaxArtifacts == 3
\* the most platform entries a manifest found on the release holds
MaxExisting == 2

OutDir == <<"/", "b", "/">>

ArtifactAt(name, arch) == [path |-> OutDir \o name, arch |-> arch]

\* download URL directories the host issues: of a draft (untagged) release,
\* of a tagged one, and of a draft in a repository download/untagged-x
DraftDir == <<"github.com", "o", "r", "releases", "download", "untagged-abc123">>
TaggedDir == <<"github.com", "o", "r", "releases", "download", "v1.2.2">>
OddRepoDir == <<"github.com", "download", "untagged-x", "releases", "download",
                "untagged-abc123">>
BareDraftDir == <<"github.com", "o", "r", "releases", "download", "untagged-">>
UrlDirs == {DraftDir, TaggedDir, OddRepoDir, BareDraftDir}

TagNames == {<<>>, <<"v1.2.3">>, <<"rel", "v2">>, <<"untagged-t">>, <<"$1">>}

Archs == {"amd64", "x86_64", "x64", "x86", "i386", "arm", "arm64", "aarch64",
          "universal", "riscv64"}
TargetPlatforms == {"macos", "darwin", "windows", "linux"}

\* a manifest published earlier
OldEntry ==
    [signature |-> <<"o", "l", "d">>,
     url |-> [dir |-> TaggedDir, file |-> <<"o", "l", "d">>]]

ExistingKeys == <<"darwin-aarch64", "darwin-x86_64", "darwin-universal",
                  "windows-x86_64", "linux-i686">>

OldPlatforms(keys) ==
    LET In(k) == k \in keys
        ks == SelectSeq(ExistingKeys, In)
    IN  [i \in 1..Len(ks) |-> <<ks[i], OldEntry>>]

OldManifest(platforms) ==
    [kind |-> "json",
     members |-> << <<"version", "0.9.0">>, <<"notes", "old notes">>,
                    <<"pub_date", 0>>, <<"platforms", platforms>> >>]

\* a latest.json that is no JSON, and one that is JSON without platforms
Garbage == [kind |-> "garbage", members |-> <<>>]
NoPlatformsManifest ==
    [kind |-> "json", members |-> << <<"version", "0.9.0">> >>]

Range(f) == {f[i] : i \in DOMAIN f}

ExistingDocs ==
    {Garbage, NoPlatformsManifest}
    \cup {OldManifest(OldPlatforms(K)) :
            K \in {K \in SUBSET Range(ExistingKeys) : Cardinality(K) <= MaxExisting}}

\* the release as the host holds it: the named assets, then latest.json if any
MakeRelease(names, dir, doc) ==
    LET plain == [i \in 1..Len(names) |->
                    [id |-> i, name |-> names[i],
                     url |-> [dir |-> dir, file |-> names[i]], body |-> Binary]]
    IN  IF doc = NoDoc THEN plain
        ELSE Append(plain, [id |-> Len(names) + 1, name |-> VersionFilename,
                            url |-> [dir |-> dir, file |-> VersionFilename],
                            body |-> doc])

\* names
AMsi == <<"a">> \o MSI
AExe == <<"a">> \o EXE
ANsisZip == <<"a">> \o NSIS \o ZIP
BMsi == <<"b">> \o MSI
CMsi == <<"c">> \o MSI
DExe == <<"d">> \o EXE
OddLocal == <<"x", " ", "(", "1", ")", ".", "t", "g", "z">>
OddRemote == <<"x", ".", "1", ".", "t", "g", "z">>
AccentLocal == <<"é">> \o MSI \o ZIP
AccentRemote == <<"e">> \o MSI \o ZIP

\* the artifacts the selection runs draw from: signatures of every installer
\* type, two of one type, one of no listed type, one whose path ends in a
\* blank, one that was not uploaded, and companions
SelectPool ==
    {ArtifactAt(AMsi \o SIG, "x64"), ArtifactAt(AMsi, "x64"),
     ArtifactAt(AExe \o SIG, "x64"), ArtifactAt(AExe, "x64"),
     ArtifactAt(ANsisZip \o SIG, "x64"),
     ArtifactAt(BMsi \o SIG, "x64"),
     ArtifactAt(CMsi \o SIG, "x64"),
     ArtifactAt(DExe \o SIG \o <<" ">>, "x64"),
     ArtifactAt(OddLocal \o SIG, "x64"),
     ArtifactAt(AccentLocal \o SIG, "x64")}

\* what the release of a selection run holds; c.msi.sig is not among it,
\* a.nsis.zip is, without being a local artifact
SelectRemote ==
    <<AMsi \o SIG, AMsi, AExe \o SIG, AExe, ANsisZip \o SIG, ANsisZip,
      BMsi \o SIG, DExe \o SIG, OddRemote \o SIG, AccentRemote \o SIG>>

ArtifactLists(pool, n) ==
    {l \in UNION {[1..k -> pool] : k \in 0..n} :
        \A i, j \in 1..Len(l) : i # j => l[i] # l[j]}

\* the artifacts of a merge run: one signature and its companion
MergeArtifacts(arch) == <<ArtifactAt(AMsi \o SIG, arch), ArtifactAt(AMsi, arch)>>
MergeRemote == <<AMsi \o SIG, AMsi>>

InitRun ==
    /\ clock = 1
    /\ disk = NoDoc
    /\ nextId = Len(release) + 1
    /\ pc = "start"
    /\ assetsData = <<>>
    /\ asset = NoAsset
    /\ versionContent = [version |-> "", notes |-> "", pub_date |-> 0,
                         platforms |-> <<>>, platformsDefined |-> TRUE]
    /\ filteredAssets = <<>>
    /\ signatureFiles = <<>>
    /\ downloadUrl = NoUrl
    /\ log = <<>>
    /\ failure = "none"
    /\ phase = "first"
    /\ first = [outcome |-> "none", release |-> release]

\* merge runs: every target, architecture and flag against every manifest
Init ==
    /\ token \in BOOLEAN
    /\ \E arch \in Archs : artifacts = MergeArtifacts(arch)
    /\ platform \in TargetPlatforms
    /\ preferNsis \in BOOLEAN
    /\ keepUniversal \in BOOLEAN
    /\ tagName = <<"v1.2.3">>
    /\ urlDir = DraftDir
    /\ \E doc \in {NoDoc} \cup ExistingDocs :
          release = MakeRelease(MergeRemote, urlDir, doc)
    /\ InitRun

\* selection runs, each a single call: every list of artifacts
InitSelect ==
    /\ token = TRUE
    /\ artifacts \in ArtifactLists(SelectPool, MaxArtifacts)
    /\ platform = "windows"
    /\ preferNsis \in BOOLEAN
    /\ keepUniversal = FALSE
    /\ tagName = <<"v1.2.3">>
    /\ urlDir = DraftDir
    /\ release = MakeRelease(SelectRemote, urlDir, OldManifest(OldPlatforms({"linux-i686"})))
    /\ InitRun

\* URL runs: every tag name against every download URL
InitUrl ==
    /\ token = TRUE
    /\ \E arch \in {"x64", "universal"} : artifacts = MergeArtifacts(arch)
    /\ platform \in {"windows", "macos"}
    /\ preferNsis = FALSE
    /\ keepUniversal \in BOOLEAN
    /\ tagName \in TagNames
    /\ urlDir \in UrlDirs
    /\ \E doc \in {NoDoc, OldManifest(OldPlatforms({"darwin-aarch64"}))} :
          release = MakeRelease(MergeRemote, urlDir, doc)
    /\ InitRun

Spec == Init /\ [][Next]_vars
SpecSelect == InitSelect /\ [][Run]_vars
SpecUrl == InitUrl /\ [][Next]_vars

(***************************************************************************)
(* Properties                                                              *)
(***************************************************************************)

Keys(obj) == {obj[i][1] : i \in 1..Len(obj)}

Issued(call) == \E i \in 1..Len(log) : log[i] = call

\* the platforms object the run started from: that of the manifest found on
\* the release, empty when there was none
Existing ==
    IF asset # NoAsset /\ Parses(asset.body) /\ HasMember(asset.body, "platforms")
    THEN Member(asset.body, "platforms") ELSE <<>>

\* the run has made its writes to versionContent.platforms
Merged ==
    \/ pc \in {"write", "delete", "upload", "done"}
    \/ pc = "error" /\ failure \in {"delete", "upload"}

\* the entry the run writes
NewEntry ==
    [signature |-> <<"s", "i", "g", ":">> \o signatureFiles[1].path,
     url |-> downloadUrl]

\* the manifest assets of a release, and the one a client downloads
ManifestAssets(assets) == LET Is(a) == a.name = VersionFilename IN SelectSeq(assets, Is)
Published(assets) == ManifestAssets(assets)[1].body

\* obj and old agree on every key outside except: same keys, same values
SameOutside(obj, old, except) ==
    /\ Keys(obj) \ except = Keys(old) \ except
    /\ \A k \in Keys(old) \ except : GetKey(obj, k) = GetKey(old, k)

\* the windows run of the end-to-end scenario, published
C1_Scenario ==
    /\ pc = "done"
    /\ platform = "windows"
    /\ signatureFiles[1].arch \in {"amd64", "x86_64", "x64"}
    /\ ~preferNsis
    /\ EndsWith(signatureFiles[1].path, MSI \o SIG)
    /\ downloadUrl.file = AMsi
    /\ HasKey(Existing, "windows-x86_64")

\* C1 as stated: in the end-to-end scenario the published manifest still holds
\* the windows-x86_64 entry the release had before the run, and no other
\* platform key is added or changed.
C1_RetainsExisting ==
    C1_Scenario =>
        LET out == Member(Published(release), "platforms")
        IN  /\ GetKey(out, "windows-x86_64") = GetKey(Existing, "windows-x86_64")
            /\ SameOutside(out, Existing, {"windows-x86_64"})

\* C1 amended: in the end-to-end scenario the published manifest holds under
\* windows-x86_64 the new signature and the rewritten url of the companion
\* .msi in place of the entry the release had; no other platform key is added
\* or changed; version, notes and pub_date are those of the run.
C1_OverwritesExisting ==
    C1_Scenario =>
        LET doc == Published(release)
            out == Member(doc, "platforms")
        IN  /\ GetKey(out, "windows-x86_64") =
                  [signature |-> <<"s", "i", "g", ":">> \o OutDir \o AMsi \o SIG,
                   url |-> [dir |-> <<"github.com", "o", "r", "releases",
                                      "download", "v1.2.3">>,
                            file |-> AMsi]]
            /\ SameOutside(out, Existing, {"windows-x86_64"})
            /\ Len(out) = Len(Existing)
            /\ Member(doc, "version") = Version
            /\ Member(doc, "notes") = Notes
            /\ Member(doc, "pub_date") = clock

C1_Witness ==
    /\ C1_Scenario
    /\ Keys(Existing) = {"windows-x86_64", "linux-i686"}
    /\ GetKey(Existing, "windows-x86_64") = OldEntry
    /\ GetKey(Member(Published(release), "platforms"), "windows-x86_64") # OldEntry

\* the run resolved to darwin/universal
IsUniversal ==
    /\ platform \in {"macos", "darwin"}
    /\ signatureFiles[1].arch = "universal"

\* C2: a macos/universal run with keepUniversal=false writes darwin-aarch64
\* and darwin-x86_64, each exactly when the manifest it started from lacks
\* the key, both with the same signature and rewritten url; every other key,
\* darwin-universal included, is neither added nor changed.
C2_UniversalInsertIfAbsent ==
    (Merged /\ platform = "macos" /\ signatureFiles[1].arch = "universal"
            /\ ~keepUniversal) =>
        LET out == versionContent.platforms
        IN  /\ \A k \in {"darwin-aarch64", "darwin-x86_64"} :
                  /\ HasKey(out, k)
                  /\ GetKey(out, k) =
                        IF HasKey(Existing, k) THEN GetKey(Existing, k) ELSE NewEntry
            /\ NewEntry # OldEntry
            /\ SameOutside(out, Existing, {"darwin-aarch64", "darwin-x86_64"})
            /\ HasKey(out, "darwin-universal") => GetKey(out, "darwin-universal") = OldEntry

C2_Witness ==
    /\ Merged /\ platform = "macos" /\ signatureFiles[1].arch = "universal"
    /\ ~keepUniversal
    /\ Keys(Existing) = {"darwin-aarch64"}
    /\ GetKey(versionContent.platforms, "darwin-aarch64") = OldEntry
    /\ GetKey(versionContent.platforms, "darwin-x86_64") = NewEntry

\* the platform key the claim states for a target and an architecture
C5_Os(p) == IF p = "macos" THEN "darwin" ELSE p
C5_Arch(a) ==
    CASE a \in {"amd64", "x86_64", "x64"} -> "x86_64"
      [] a \in {"x86", "i386"} -> "i686"
      [] a = "arm" -> "armv7"
      [] a = "arm64" -> "aarch64"
      [] OTHER -> a
C5_Key == C5_Os(platform) \o "-" \o C5_Arch(signatureFiles[1].arch)

\* C5: a run that did not resolve to darwin/universal writes exactly the key
\* {os}-{arch} under the stated aliases, with the new signature and url
\* whether or not the key existed, and carries every other key over
\* unchanged; a darwin/universal run with keepUniversal=true writes
\* darwin-universal likewise, besides its insert-if-absent writes.
C5_DirectWrite ==
    Merged =>
        LET out == versionContent.platforms
        IN  /\ ~IsUniversal =>
                  /\ HasKey(out, C5_Key)
                  /\ GetKey(out, C5_Key) = NewEntry
                  /\ SameOutside(out, Existing, {C5_Key})
            /\ (IsUniversal /\ keepUniversal) =>
                  /\ C5_Key = "darwin-universal"
                  /\ HasKey(out, C5_Key)
                  /\ GetKey(out, C5_Key) = NewEntry
                  /\ SameOutside(out, Existing,
                                 {C5_Key, "darwin-aarch64", "darwin-x86_64"})

C5_Witness ==
    /\ Merged /\ ~IsUniversal
    /\ signatureFiles[1].arch = "arm64"
    /\ platform = "macos"
    /\ Keys(Existing) = {"darwin-aarch64", "windows-x86_64"}
    /\ GetKey(versionContent.platforms, "darwin-aarch64") = NewEntry

\* C3: when the first run published a manifest and the second run, with the
\* same inputs, published again, the platforms object of the second manifest
\* is the first one's, member for member in the same order; version and
\* notes agree too.
C3_Idempotent ==
    (phase = "second" /\ pc = "done" /\ first.outcome = "done") =>
        /\ Member(Published(release), "platforms")
              = Member(Published(first.release), "platforms")
        /\ Member(Published(release), "version")
              = Member(Published(first.release), "version")
        /\ Member(Published(release), "notes")
              = Member(Published(first.release), "notes")
        /\ Member(Published(release), "pub_date")
              # Member(Published(first.release), "pub_date")

C3_Witness ==
    /\ phase = "second" /\ pc = "done" /\ first.outcome = "done"
    /\ IsUniversal /\ keepUniversal
    /\ Len(Member(Published(release), "platforms")) = 3

\* the run has sorted its signature files and found some
Selected == pc \notin {"start", "list", "fetch", "select"} /\ signatureFiles # <<>>

\* the rank the claim gives a path, 1 the highest, 5 for any other suffix
C4_Rank(path, nsis) ==
    LET order == IF nsis
                 THEN <<NSIS \o ZIP \o SIG, EXE \o SIG, MSI \o ZIP \o SIG, MSI \o SIG>>
                 ELSE <<MSI \o ZIP \o SIG, MSI \o SIG, NSIS \o ZIP \o SIG, EXE \o SIG>>
    IN  IF \E i \in 1..4 : EndsWith(path, order[i])
        THEN CHOOSE i \in 1..4 : EndsWith(path, order[i])
        ELSE 5

\* where a path stands in the artifact list
C4_Position(path) == CHOOSE i \in 1..Len(artifacts) : artifacts[i].path = path

\* the matched assets whose normalized name ends in .sig
C4_Candidates ==
    {filteredAssets[i] : i \in {j \in 1..Len(filteredAssets) :
                                  EndsWith(filteredAssets[j].assetName, SIG)}}

\* C4: the signature chosen is a matched asset whose name ends in .sig, no
\* candidate's path ranks higher under the ordering of preferNsis, and no
\* candidate of the same rank stands earlier in the artifact list.
C4_Winner ==
    Selected =>
        LET w == signatureFiles[1]
        IN  /\ w \in C4_Candidates
            /\ \A c \in C4_Candidates :
                  /\ C4_Rank(w.path, preferNsis) <= C4_Rank(c.path, preferNsis)
                  /\ C4_Rank(c.path, preferNsis) = C4_Rank(w.path, preferNsis)
                        => C4_Position(w.path) <= C4_Position(c.path)

C4_Witness ==
    /\ Selected
    /\ Len(signatureFiles) = 3
    /\ C4_Rank(signatureFiles[1].path, preferNsis) = 2
    /\ C4_Rank(signatureFiles[2].path, preferNsis) = 2
    /\ C4_Rank(signatureFiles[3].path, preferNsis) = 5
    /\ C4_Position(signatureFiles[3].path) = 1

\* an artifact is matched: its normalized name is the name of an asset of the
\* release
OnRelease(name) == \E i \in 1..Len(release) : release[i].name = name
MatchedNames ==
    {n \in {AssetName(artifacts[i].path) : i \in 1..Len(artifacts)} : OnRelease(n)}

NoEffect ==
    /\ ~Issued("writeFile")
    /\ ~Issued("deleteReleaseAsset")
    /\ ~Issued("uploadAssets")
    /\ release = first.release

\* C7: a run with no matched asset whose name ends in .sig writes no file,
\* deletes nothing and uploads nothing at any point, leaves the release as
\* listed, and once it has fetched the existing manifest ends by returning,
\* not by throwing.
C7_NoSignatureNoOp ==
    (\A n \in MatchedNames : ~EndsWith(n, SIG)) =>
        /\ NoEffect
        /\ pc \notin {"companion", "merge", "write", "delete", "upload", "done"}
        /\ pc = "error" => failure \in {"token", "list", "fetch", "parse"}

C7_Witness ==
    /\ pc = "skipped"
    /\ \A n \in MatchedNames : ~EndsWith(n, SIG)
    /\ Len(artifacts) = 2
    /\ Len(filteredAssets) = 1
    /\ ManifestAssets(release) # <<>>

\* the name of the winning signature without its trailing .sig
C10_CompanionName ==
    SubSeq(signatureFiles[1].assetName, 1, Len(signatureFiles[1].assetName) - 4)

\* the run has looked for the companion
PastCompanion == Selected /\ pc # "companion"

\* C10: the run goes on past the companion lookup only when a matched asset
\* bears the winning signature's name without .sig, and the url it then
\* advertises is that asset's; otherwise it ends by returning, having written,
\* deleted and uploaded nothing.
C10_CompanionOnly ==
    PastCompanion =>
        IF C10_CompanionName \in MatchedNames
        THEN /\ pc # "skipped"
             /\ downloadUrl.file = C10_CompanionName
        ELSE /\ pc = "skipped"
             /\ failure = "none"
             /\ downloadUrl = NoUrl
             /\ NoEffect

\* the winner has no local companion although the release holds one, and a
\* signature of lower priority has its companion matched
C10_Witness ==
    /\ PastCompanion
    /\ pc = "skipped"
    /\ OnRelease(C10_CompanionName)
    /\ Len(signatureFiles) = 2
    /\ SubSeq(signatureFiles[2].assetName, 1, Len(signatureFiles[2].assetName) - 4)
          \in MatchedNames

\* where a call stands in the log, 0 when it was not issued
IssuedAt(call) ==
    IF Issued(call) THEN CHOOSE i \in 1..Len(log) : log[i] = call ELSE 0

\* C6: deleteReleaseAsset is issued only for a latest.json found in the
\* listing and only after the manifest file was written; the upload is
\* issued after the file was written and, when a latest.json was listed,
\* after its deletion.  A run that throws in the upload after the deletion
\* leaves the release without latest.json; a run that completes leaves it
\* with exactly one, holding the merged manifest.
C6_DeleteThenUpload ==
    /\ Issued("deleteReleaseAsset") =>
          /\ asset # NoAsset
          /\ asset.name = VersionFilename
          /\ \E i \in 1..Len(assetsData) : assetsData[i] = asset
          /\ 0 < IssuedAt("writeFile")
          /\ IssuedAt("writeFile") < IssuedAt("deleteReleaseAsset")
    /\ Issued("uploadAssets") =>
          /\ 0 < IssuedAt("writeFile")
          /\ IssuedAt("writeFile") < IssuedAt("uploadAssets")
          /\ asset # NoAsset =>
                /\ 0 < IssuedAt("deleteReleaseAsset")
                /\ IssuedAt("deleteReleaseAsset") < IssuedAt("uploadAssets")
    /\ (pc = "error" /\ failure = "upload" /\ Issued("deleteReleaseAsset")) =>
          ManifestAssets(release) = <<>>
    /\ pc = "done" =>
          /\ Len(ManifestAssets(release)) = 1
          /\ Published(release) = disk
          /\ Member(Published(release), "platforms") = versionContent.platforms
          /\ Member(Published(release), "version") = Version

\* the release had a manifest, lost it to the deletion and got none back
C6_Witness ==
    /\ pc = "error" /\ failure = "upload"
    /\ Issued("deleteReleaseAsset")
    /\ ManifestAssets(first.release) # <<>>
    /\ ManifestAssets(release) = <<>>
    /\ disk # NoDoc

\* C9: a run without token throws before any call; a run whose listing or
\* fetch throws, or whose existing latest.json is no JSON, throws and goes no
\* further (no empty platforms object stands in for the manifest); none of
\* them writes the file, deletes an asset or uploads.
C9_FatalBeforePublishing ==
    /\ ~token => pc \in {"start", "error"} /\ log = <<>>
    /\ pc = "error" => failure # "none"
    /\ failure \in {"token", "list", "fetch", "parse"} =>
          /\ pc = "error"
          /\ NoEffect
          /\ disk = IF phase = "first" THEN NoDoc ELSE disk
    /\ failure = "list" => assetsData = <<>>
    /\ (asset # NoAsset /\ ~(asset.body.kind = "json")) =>
          /\ pc \in {"fetch", "error"}
          /\ failure \in {"none", "fetch", "parse"}
          /\ versionContent.platforms = <<>>
          /\ NoEffect

C9_Witness ==
    /\ pc = "error" /\ failure = "parse"
    /\ asset.body = Garbage
    /\ log = <<"listReleaseAssets", "getReleaseAsset">>

\* the url of the matched companion before the rewrite
C8_SourceUrl ==
    [dir |-> urlDir, file |-> downloadUrl.file]

\* the number of /download/untagged-.../ segments of a url
C8_Untagged(dir) ==
    {i \in 1..Len(dir) :
        /\ i + 1 <= Len(dir)
        /\ dir[i] = "download"
        /\ dir[i + 1] \in {"untagged-abc123", "untagged-t", "untagged-x"}}

\* the rewrite as the claim states it: the segment replaced by the tag name
\* itself, or by latest/download without one
C8_Stated(dir, tag) ==
    IF C8_Untagged(dir) = {} THEN dir
    ELSE LET i == CHOOSE i \in C8_Untagged(dir) : \A j \in C8_Untagged(dir) : i <= j
         IN  SubSeq(dir, 1, i - 1)
             \o (IF tag # <<>> THEN <<"download">> \o tag ELSE <<"latest", "download">>)
             \o SubSeq(dir, i + 2, Len(dir))

\* C8: the url of every entry the run writes is the companion's download url
\* with its /download/untagged-.../ segment replaced by /download/<tagName>/,
\* or by /latest/download/ without a tag name, and unchanged without such a
\* segment.
C8_UrlRewrite ==
    Merged =>
        /\ downloadUrl.file = C8_SourceUrl.file
        /\ downloadUrl.dir = C8_Stated(urlDir, tagName)
        /\ \A i \in 1..Len(versionContent.platforms) :
              versionContent.platforms[i][2] # OldEntry
                 => versionContent.platforms[i][2].url = downloadUrl

\* the corollary C8 draws: no entry written holds a /download/untagged-.../
\* segment when the download url held at most one
C8_NoUntaggedLeft ==
    (Merged /\ Cardinality(C8_Untagged(urlDir)) <= 1) =>
        C8_Untagged(downloadUrl.dir) = {}

\* C8 for the tag names it holds for: with a tag name that contains no $
\* pattern the segment is replaced by the tag name itself
C8_LiteralTags ==
    (Merged /\ tagName # <<"$1">>) =>
        /\ downloadUrl.dir = C8_Stated(urlDir, tagName)
        /\ (Cardinality(C8_Untagged(urlDir)) <= 1 /\ tagName # <<"untagged-t">>)
              => C8_Untagged(downloadUrl.dir) = {}

====
